---- MODULE Spec2Model ----
(***************************************************************************)
(* A model of fft.c: the transform dispatcher, the radix-2 engine, the     *)
(* Bluestein adapter, circular convolution and the dual-real packing       *)
(* adapter, executed on a small heap with an allocator that may refuse.    *)
(*                                                                         *)
(* Arithmetic.  A double is modelled by the real number it approximates.   *)
(* Every value the code computes for the lengths modelled (1, 2, 3, 4, 8)  *)
(* lies in the field Q(sqrt 2, sqrt 3): the twiddle factors are cosines    *)
(* and sines of multiples of pi/12.  A number is the tuple                 *)
(*      <<a, b, c, d, e>>  =  (a + b*sqrt2 + c*sqrt3 + d*sqrt6) / e        *)
(* in lowest terms with e > 0.  e = 0 is an indeterminate value (a read of *)
(* uninitialised or out-of-bounds storage, a division by zero).            *)
(***************************************************************************)
EXTENDS Integers, Sequences, FiniteSets, TLC

\* ------------------------------------------------------------------ bounds
MaxVal == 1
MaxNonZero == 2
MaxFail == 1
SizeBits == 8

\* The lengths a caller passes in the data specifications: every length whose
\* twiddle factors (and those of its Bluestein working length) are multiples
\* of pi/12.
Lengths == {0, 1, 2, 3, 4, 8}

\* --------------------------------------------------------------- constants
NULL == 0
SizeofDouble == 8

\* #define SIZE_MAX ((size_t)-1)
SIZE_MAX == (2 ^ SizeBits) - 1

\* size_t arithmetic wraps modulo 2^SizeBits
Wrap(x) == x % (2 ^ SizeBits)

\* ------------------------------------------------------ numbers (doubles)
Abs(x) == IF x < 0 THEN -x ELSE x

RECURSIVE GCD(_, _)
GCD(x, y) == IF y = 0 THEN x ELSE GCD(y, x % y)

Indet == <<0, 0, 0, 0, 0>>

IsIndet(x) == x[5] = 0

Norm(t) ==
  IF t[5] = 0 THEN Indet
  ELSE LET g == GCD(GCD(GCD(Abs(t[1]), Abs(t[2])), GCD(Abs(t[3]), Abs(t[4]))), Abs(t[5]))
           s == IF t[5] < 0 THEN -g ELSE g
       IN  IF s = 1 THEN t
           ELSE <<t[1] \div s, t[2] \div s, t[3] \div s, t[4] \div s, t[5] \div s>>

Num(k) == <<k, 0, 0, 0, 1>>

Zero == Num(0)

Add(x, y) ==
  IF x[5] = 0 \/ y[5] = 0 THEN Indet
  ELSE IF x[5] = y[5]
       THEN Norm(<<x[1] + y[1], x[2] + y[2], x[3] + y[3], x[4] + y[4], x[5]>>)
       ELSE Norm(<<x[1] * y[5] + y[1] * x[5], x[2] * y[5] + y[2] * x[5],
                   x[3] * y[5] + y[3] * x[5], x[4] * y[5] + y[4] * x[5],
                   x[5] * y[5]>>)

Neg(x) == <<-x[1], -x[2], -x[3], -x[4], x[5]>>

Sub(x, y) == Add(x, Neg(y))

Mul(x, y) ==
  IF x[5] = 0 \/ y[5] = 0 THEN Indet
  ELSE Norm(<<x[1] * y[1] + 2 * x[2] * y[2] + 3 * x[3] * y[3] + 6 * x[4] * y[4],
              x[1] * y[2] + x[2] * y[1] + 3 * (x[3] * y[4] + x[4] * y[3]),
              x[1] * y[3] + x[3] * y[1] + 2 * (x[2] * y[4] + x[4] * y[2]),
              x[1] * y[4] + x[4] * y[1] + x[2] * y[3] + x[3] * y[2],
              x[5] * y[5]>>)

\* x / k for an integer k; k = 0 gives an indeterminate value (inf or NaN)
DivInt(x, k) == IF k = 0 THEN Indet ELSE Norm(<<x[1], x[2], x[3], x[4], x[5] * k>>)

\* 0.5 * x
Half(x) == DivInt(x, 2)

\* ----------------------------------------------------------- cos and sin
\* cos(k * pi / 12) for k in 0..6
CosFirst(k) ==
  CASE k = 0 -> <<1, 0, 0, 0, 1>>
    [] k = 1 -> <<0, 1, 0, 1, 4>>
    [] k = 2 -> <<0, 0, 1, 0, 2>>
    [] k = 3 -> <<0, 1, 0, 0, 2>>
    [] k = 4 -> <<1, 0, 0, 0, 2>>
    [] k = 5 -> <<0, -1, 0, 1, 4>>
    [] k = 6 -> <<0, 0, 0, 0, 1>>

\* cos(k * pi / 12) for any integer k >= 0
Cos12(k) ==
  LET r == k % 24
      f == IF r > 12 THEN 24 - r ELSE r
  IN  IF f > 6 THEN Neg(CosFirst(12 - f)) ELSE CosFirst(f)

\* sin(x) = cos(x - pi/2)
Sin12(k) == Cos12(k + 18)

\* cos(pi * num / den) and sin(pi * num / den): the angle must be a multiple of
\* pi/12 (true of every angle the modelled lengths produce)
CosPi(num, den) == IF den # 0 /\ (12 * num) % den = 0 THEN Cos12((12 * num) \div den) ELSE Indet

SinPi(num, den) == IF den # 0 /\ (12 * num) % den = 0 THEN Sin12((12 * num) \div den) ELSE Indet

\* ------------------------------------------------------------ the machine
(***************************************************************************)
(* The machine a call runs on, threaded through every operator as M:       *)
(*   mem      buffer id -> array (a function 0..len-1 -> number)           *)
(*   nalloc   allocation requests made so far; base: those made before the *)
(*            call now running                                             *)
(*   failAt   the requests (by number) the allocator refuses               *)
(*   nullRet  allocations that returned NULL                               *)
(*   nullAcc  a NULL pointer was read or written                           *)
(*   oob      an index outside its buffer was read or written              *)
(*   nfree    buffers freed                                                *)
(*   badFree  free() of a pointer that is neither NULL nor live            *)
(*   rd, wr   the caller's buffers read, written                           *)
(*   lvl, bd  call depth, and how many transform_bluestein frames are open *)
(*   log      one record per returned call of an engine or the dispatcher  *)
(*   perm     one record per bit-reversal permutation performed            *)
(* A buffer id is a pointer; NULL is 0.  Ids 1..8 are the caller's, heap   *)
(* buffer k (the k-th request) has id 8 + k.                               *)
(***************************************************************************)
Range(k) == 0 .. (k - 1)

CallerIds == 1 .. 8

\* f itself, as an explicit table (TLC otherwise keeps [i \in S |-> e] unevaluated)
Table(f) == f @@ <<>>

\* the array of k indeterminate values: fresh malloc storage
Garbage(k) == Table([i \in Range(k) |-> Indet])

Zeros(k) == Table([i \in Range(k) |-> Zero])

\* the heap buffers allocated and not yet freed
Live(M) == (DOMAIN M.mem) \ CallerIds

\* malloc(bytes) and calloc(count, 8): the pointer is NULL when the allocator
\* refuses the request.  The result is <<machine, pointer>>.
Allocate(M, bytes, fill) ==
  LET k == M.nalloc + 1
      p == 8 + k
  IN  IF k \in M.failAt
      THEN <<[M EXCEPT !.nalloc = k, !.nullRet = @ + 1], NULL>>
      ELSE <<[M EXCEPT !.nalloc = k,
                       !.mem = (p :> Table([i \in Range(bytes \div SizeofDouble) |-> fill])) @@ @], p>>

malloc(M, bytes) == Allocate(M, bytes, Indet)

calloc(M, count) == Allocate(M, count * SizeofDouble, Zero)

\* free(p): free(NULL) does nothing
free(M, p) ==
  IF p = NULL THEN M
  ELSE IF p \in Live(M)
       THEN [M EXCEPT !.mem = Table([q \in (DOMAIN @) \ {p} |-> @[q]]), !.nfree = @ + 1]
       ELSE [M EXCEPT !.badFree = TRUE]

RECURSIVE FreeAll(_, _)
FreeAll(M, ps) == IF ps = <<>> THEN M ELSE FreeAll(free(M, Head(ps)), Tail(ps))

Valid(M, p, i) == p # NULL /\ p \in DOMAIN M.mem /\ i \in DOMAIN M.mem[p]

\* the value p[i]
Val(M, p, i) == IF Valid(M, p, i) THEN M.mem[p][i] ELSE Indet

\* the values p[0..k-1] as an array
Arr(M, p, k) == Table([i \in Range(k) |-> Val(M, p, i)])

\* a buffer of the caller's is noted in the read or written set
Note(S, p) == IF p \in CallerIds /\ p \notin S THEN S \cup {p} ELSE S

\* the machine after reading p[i] for every i in I
Rd(M, p, I) ==
  IF I = {} THEN M
  ELSE [M EXCEPT !.rd = Note(@, p),
                 !.nullAcc = @ \/ p = NULL,
                 !.oob = @ \/ (p # NULL /\ \E i \in I : ~Valid(M, p, i))]

\* the machine after the stores p[i] = f[i] for every i in DOMAIN f
Wr(M, p, f) ==
  IF DOMAIN f = {} THEN M
  ELSE LET ok == p # NULL /\ p \in DOMAIN M.mem
       IN  [M EXCEPT !.wr = Note(@, p),
                     !.nullAcc = @ \/ p = NULL,
                     !.oob = @ \/ (p # NULL /\ \E i \in DOMAIN f : ~Valid(M, p, i)),
                     !.mem = IF ok
                             THEN [@ EXCEPT ![p] = Table([i \in DOMAIN @ |-> IF i \in DOMAIN f THEN f[i] ELSE @[i]])]
                             ELSE @]

\* void *memdup(const void *src, size_t n): <<machine, pointer>>
memdup(M, src, bytes) ==
  LET a == malloc(M, bytes)
      k == bytes \div SizeofDouble
  IN  IF a[2] # NULL
      THEN <<Wr(Rd(a[1], src, Range(k)), a[2], Arr(a[1], src, k)), a[2]>>
      ELSE a

\* double *zero_reals(int n): the result of malloc is written without a test
zero_reals(M, k) ==
  LET a == malloc(M, k * SizeofDouble)
  IN  <<Wr(a[1], a[2], Zeros(k)), a[2]>>

\* a run of allocations, in order: reqs is a sequence of <<bytes, fill>>;
\* the result is <<machine, the pointers in order>>
RECURSIVE AllocSeq(_, _, _)
AllocNext(a, rest, got) == AllocSeq(a[1], rest, Append(got, a[2]))

AllocSeq(M, reqs, got) ==
  IF reqs = <<>> THEN <<M, got>>
  ELSE AllocNext(Allocate(M, Head(reqs)[1], Head(reqs)[2]), Tail(reqs), got)

\* a run of memdup calls of the same size, in order
RECURSIVE DupSeq(_, _, _, _)
DupNext(a, rest, bytes, got) == DupSeq(a[1], rest, bytes, Append(got, a[2]))

DupSeq(M, srcs, bytes, got) ==
  IF srcs = <<>> THEN <<M, got>>
  ELSE DupNext(memdup(M, Head(srcs), bytes), Tail(srcs), bytes, got)

Uninit(bytes) == <<bytes, Indet>>

Cleared(count) == <<count * SizeofDouble, Zero>>

AnyNull(ps) == \E i \in DOMAIN ps : ps[i] = NULL

Reverse(ps) == [i \in 1 .. Len(ps) |-> ps[Len(ps) + 1 - i]]

\* a call is entered: one frame deeper
Enter(M) == [M EXCEPT !.lvl = @ + 1]

\* a call returns: R is <<machine, status>>; the return is logged
Leave(R, fn, n) ==
  <<[R[1] EXCEPT !.lvl = @ - 1,
                 !.log = Append(@, [fn |-> fn, n |-> n, ret |-> R[2], lvl |-> R[1].lvl, bd |-> R[1].bd])],
    R[2]>>

\* ------------------------------------------------------- transform_radix2
\* static size_t reverse_bits(size_t x, unsigned int n)
RECURSIVE ReverseLoop(_, _, _, _)
ReverseLoop(result, x, i, n) ==
  IF i < n THEN ReverseLoop(Wrap(result * 2) + (x % 2), x \div 2, i + 1, n) ELSE result

reverse_bits(x, n) == ReverseLoop(0, x, 0, n)

\* levels = floor(log2(n)): while (temp > 1) { levels++; temp >>= 1; }
RECURSIVE FloorLog2(_)
FloorLog2(temp) == IF temp > 1 THEN 1 + FloorLog2(temp \div 2) ELSE 0

\* 1u << levels (unsigned int taken as wide as size_t, so the shift is defined)
ShiftOne(levels) == Wrap(2 ^ levels)

\* if (1u << levels != n) return 0;
NotPowerOf2(n) == ShiftOne(FloorLog2(n)) # n

\* if (SIZE_MAX / sizeof(double) < n / 2) return 0;
Radix2TableTooBig(n) == SIZE_MAX \div SizeofDouble < n \div 2

\* cos_table[i] = cos(2 * M_PI * i / n); sin_table[i] = sin(2 * M_PI * i / n);
Radix2Cos(n) == Table([i \in Range(n \div 2) |-> CosPi(2 * i, n)])

Radix2Sin(n) == Table([i \in Range(n \div 2) |-> SinPi(2 * i, n)])

\* a table entry
Tab(t, k) == IF k \in DOMAIN t THEN t[k] ELSE Indet

\* the signal in registers: st.real, st.imag; st.touched once the loops have
\* read or written the signal; st.swaps the swaps made, in order
Sig(st, a, i) == IF i \in DOMAIN st[a] THEN st[a][i] ELSE Indet

\* the registers hold their values (tested at the head of each loop, so that
\* TLC evaluates one iteration before it starts the next)
Ready(st) == st.touched \in BOOLEAN

\* the swap of real[i], real[j] and imag[i], imag[j]
Swap(st, i, j) ==
  [st EXCEPT !.real = [@ EXCEPT ![i] = Sig(st, "real", j), ![j] = Sig(st, "real", i)],
             !.imag = [@ EXCEPT ![i] = Sig(st, "imag", j), ![j] = Sig(st, "imag", i)],
             !.touched = TRUE,
             !.swaps = Append(@, <<i, j>>)]

\* the swap made whatever the order of i and j
SwapAlways(i, j) == TRUE

\* if (j > i) swap
SwapGuard(i, j) == j > i

\* Bit-reversed addressing permutation: for (i = 0; i < n; i++)
RECURSIVE PermutationLoop(_, _, _, _)
PermutationLoop(st, i, n, levels) ==
  IF Ready(st) /\ i < n
  THEN LET j == reverse_bits(i, levels)
       IN  PermutationLoop(IF SwapGuard(i, j) THEN Swap(st, i, j) ELSE st, i + 1, n, levels)
  ELSE st

\* one butterfly (the body of the innermost loop)
Butterfly(st, j, k, halfsize, ct, sn) ==
  LET rh   == Sig(st, "real", j + halfsize)
      ih   == Sig(st, "imag", j + halfsize)
      tpre == Add(Mul(rh, Tab(ct, k)), Mul(ih, Tab(sn, k)))
      tpim == Add(Mul(Neg(rh), Tab(sn, k)), Mul(ih, Tab(ct, k)))
      rj   == Sig(st, "real", j)
      ij   == Sig(st, "imag", j)
  IN  [st EXCEPT !.real = [@ EXCEPT ![j + halfsize] = Sub(rj, tpre), ![j] = Add(rj, tpre)],
                 !.imag = [@ EXCEPT ![j + halfsize] = Sub(ij, tpim), ![j] = Add(ij, tpim)],
                 !.touched = TRUE]

\* for (j = i, k = 0; j < i + halfsize; j++, k += tablestep)
RECURSIVE InnerLoop(_, _, _, _, _, _, _, _)
InnerLoop(st, j, k, jend, halfsize, tablestep, ct, sn) ==
  IF Ready(st) /\ j < jend
  THEN InnerLoop(Butterfly(st, j, k, halfsize, ct, sn), j + 1, k + tablestep, jend,
                 halfsize, tablestep, ct, sn)
  ELSE st

\* for (i = 0; i < n; i += size)
RECURSIVE BlockLoop(_, _, _, _, _, _)
BlockLoop(st, i, n, size, ct, sn) ==
  IF Ready(st) /\ i < n
  THEN BlockLoop(InnerLoop(st, i, 0, i + size \div 2, size \div 2, n \div size, ct, sn),
                 i + size, n, size, ct, sn)
  ELSE st

\* for (size = 2; size <= n; size *= 2) { ...; if (size == n) break; }
RECURSIVE StageLoop(_, _, _, _, _)
StageLoop(st, size, n, ct, sn) ==
  IF Ready(st) /\ size <= n
  THEN LET st1 == BlockLoop(st, 0, n, size, ct, sn)
       IN  IF size = n THEN st1 ELSE StageLoop(st1, Wrap(size * 2), n, ct, sn)
  ELSE st

\* the signal is stored back where the loops wrote it
StoreSignal(M, real, imag, n, st) ==
  IF st.touched
  THEN Wr(Wr(Rd(Rd(M, real, Range(n)), imag, Range(n)), real, st.real), imag, st.imag)
  ELSE M

\* the permutation is recorded
NotePerm(M, n, levels, st0, st1) ==
  [M EXCEPT !.perm = @ \cup {[n |-> n, levels |-> levels, lvl |-> M.lvl,
                              before |-> <<st0.real, st0.imag>>,
                              after |-> <<st1.real, st1.imag>>,
                              swaps |-> st1.swaps]}]

\* size = (n / 2) * sizeof(double)
Radix2TableBytes(n) == Wrap((n \div 2) * SizeofDouble)

\* the signal as the loops start
Registers(M, real, imag, n) ==
  [real |-> Arr(M, real, n), imag |-> Arr(M, imag, n), touched |-> FALSE, swaps |-> <<>>]

\* the tables are read by the butterflies (none when n < 2)
ReadTables(M, tabs, n) ==
  IF n >= 2 THEN Rd(Rd(M, tabs[1], Range(n \div 2)), tabs[2], Range(n \div 2)) ELSE M

\* lines 287-311: the butterflies, the stores, cleanup
radix2_stages(M, tabs, real, imag, n, st0, st1) ==
  <<FreeAll(StoreSignal(NotePerm(ReadTables(M, tabs, n), n, FloorLog2(n), st0, st1), real, imag, n,
                        StageLoop(st1, 2, n, Arr(M, tabs[1], n \div 2), Arr(M, tabs[2], n \div 2))),
            tabs), 1>>

\* lines 274-285: the permutation
radix2_permute(M, tabs, real, imag, n, st0) ==
  radix2_stages(M, tabs, real, imag, n, st0, PermutationLoop(st0, 0, n, FloorLog2(n)))

\* the test of the two tables made after the permutation
radix2_tables_late(A, real, imag, n) ==
  IF A[2][1] = NULL \/ A[2][2] = NULL
  THEN <<FreeAll(StoreSignal(A[1], real, imag, n,
                             PermutationLoop(Registers(A[1], real, imag, n), 0, n, FloorLog2(n))), A[2]), 0>>
  ELSE radix2_permute(Wr(Wr(A[1], A[2][1], Radix2Cos(n)), A[2][2], Radix2Sin(n)), A[2], real, imag, n,
                      Registers(A[1], real, imag, n))

\* lines 267-272: A is <<machine, <<cos_table, sin_table>>>>
radix2_tables(A, real, imag, n) ==
  IF A[2][1] = NULL \/ A[2][2] = NULL
  THEN <<FreeAll(A[1], A[2]), 0>>
  ELSE radix2_permute(Wr(Wr(A[1], A[2][1], Radix2Cos(n)), A[2][2], Radix2Sin(n)), A[2], real, imag, n,
                      Registers(A[1], real, imag, n))

transform_radix2_body(M, real, imag, n) ==
  IF NotPowerOf2(n) THEN <<M, 0>>
  ELSE IF Radix2TableTooBig(n) THEN <<M, 0>>
  ELSE radix2_tables(AllocSeq(M, <<Uninit(Radix2TableBytes(n)), Uninit(Radix2TableBytes(n))>>, <<>>),
                     real, imag, n)

transform_radix2(M, real, imag, n) == Leave(transform_radix2_body(Enter(M), real, imag, n), "transform_radix2", n)

\* ---------------------------------- transform, Bluestein and convolution
RECURSIVE BitAnd(_, _)
BitAnd(a, b) ==
  IF a = 0 \/ b = 0 THEN 0
  ELSE 2 * BitAnd(a \div 2, b \div 2) + (IF a % 2 = 1 /\ b % 2 = 1 THEN 1 ELSE 0)

\* a test for an even n in the place of the test for a power of two
IsEven(n) == n % 2 = 0

\* (n & (n - 1)) == 0
IsPowerOf2(n) == BitAnd(n, Wrap(n - 1 + 2 ^ SizeBits)) = 0

\* the branch transform() takes
Dispatch(n) ==
  IF n = 0 THEN "none"
  ELSE IF IsPowerOf2(n) THEN "transform_radix2"
  ELSE "transform_bluestein"

\* if (n > (SIZE_MAX - 1) / 2) return 0;
BluesteinTooBig(n) == n > (SIZE_MAX - 1) \div 2

\* the target without the + 1
TargetShort(n) == Wrap(n * 2)

\* target = n * 2 + 1;
Target(n) == Wrap(n * 2 + 1)

\* the guard of the doubling loop testing after the fact
GrowGuardLate(m) == SIZE_MAX < m

\* if (SIZE_MAX / 2 < m) return 0;
GrowGuard(m) == SIZE_MAX \div 2 < m

\* m *= 2
Grow(m) == Wrap(m * 2)

\* for (m = 1; m < target; m *= 2) { guard }: the final m, or -1 for return 0
RECURSIVE FindM(_, _)
FindM(m, target) ==
  IF m < target
  THEN IF GrowGuard(m) THEN -1 ELSE FindM(Grow(m), target)
  ELSE m

\* if (SIZE_MAX / sizeof(double) < n || SIZE_MAX / sizeof(double) < m) return 0;
BytesTooBig(n, m) == SIZE_MAX \div SizeofDouble < n \/ SIZE_MAX \div SizeofDouble < m

\* size_n = n * sizeof(double)
ByteSize(n) == Wrap(n * SizeofDouble)

\* temp = M_PI * (i * i % (n * 2)) / n; cos_table[i] = cos(temp); sin_table[i] = sin(temp);
ChirpCos(n) == Table([i \in Range(n) |-> CosPi((i * i) % (n * 2), n)])

ChirpSin(n) == Table([i \in Range(n) |-> SinPi((i * i) % (n * 2), n)])

\*  x * c + y * s   and   -x * s + y * c
RotRe(x, y, c, s) == Add(Mul(x, c), Mul(y, s))

RotIm(x, y, c, s) == Add(Mul(Neg(x), s), Mul(y, c))

\* breal[0] = cos_table[0]; breal[i] = breal[m - i] = cos_table[i] for 1 <= i < n
\* (the stores, as index -> value; t is the table)
Symmetric(t, n, m) ==
  [k \in {0} \cup {i \in 1 .. (n - 1) : TRUE} \cup {Wrap(m - i + 2 ^ SizeBits) : i \in 1 .. (n - 1)} |->
     IF k < n THEN Tab(t, k) ELSE Tab(t, Wrap(m - k + 2 ^ SizeBits))]

\* if (SIZE_MAX / sizeof(double) < n) return 0;
ConvolveTooBig(n) == SIZE_MAX \div SizeofDouble < n

\* temp = xr[i] * yr[i] - xi[i] * yi[i]; xi[i] = xi[i] * yr[i] + xr[i] * yi[i]; xr[i] = temp;
ProductRe(xr, xi, yr, yi) == Sub(Mul(xr, yr), Mul(xi, yi))

ProductIm(xr, xi, yr, yi) == Add(Mul(xi, yr), Mul(xr, yi))

\* the rescale left out
NoScale(x, n) == x

\* outreal[i] = xr[i] / n
Scale(x, n) == DivInt(x, n)

RECURSIVE transform(_, _, _, _)
RECURSIVE transform_bluestein(_, _, _, _)
RECURSIVE convolve_complex(_, _, _, _, _, _, _, _)

transform_body(M, real, imag, n) ==
  IF Dispatch(n) = "none" THEN <<M, 1>>
  ELSE IF Dispatch(n) = "transform_radix2" THEN transform_radix2(M, real, imag, n)
  ELSE transform_bluestein(M, real, imag, n)

transform(M, real, imag, n) == Leave(transform_body(Enter(M), real, imag, n), "transform", n)

\* inverse_transform without the swap of the two arrays
inverse_transform_unswapped(M, real, imag, n) == transform(M, real, imag, n)

\* return transform(imag, real, n);
inverse_transform_body(M, real, imag, n) == transform(M, imag, real, n)

inverse_transform(M, real, imag, n) == Leave(inverse_transform_body(Enter(M), real, imag, n), "inverse_transform", n)

(***************************************************************************)
(* transform_bluestein.  p is the sequence of its buffers, in the order    *)
(* allocated: cos_table, sin_table, areal, aimag, breal, bimag, creal,     *)
(* cimag; the cleanup frees them in the reverse order.                     *)
(***************************************************************************)
\* lines 381-398: real[i] = creal[i]*cos + cimag[i]*sin; imag[i] = -creal[i]*sin + cimag[i]*cos
bluestein_store(M, p, real, imag, n, ct, sn) ==
  <<FreeAll(Wr(Wr(M, real, [i \in Range(n) |-> RotRe(Val(M, p[7], i), Val(M, p[8], i), ct[i], sn[i])]),
               imag, [i \in Range(n) |-> RotIm(Val(M, p[7], i), Val(M, p[8], i), ct[i], sn[i])]),
            Reverse(p)), 1>>

\* lines 378-380: c is what convolve_complex returned
bluestein_post(c, p, real, imag, n, ct, sn) ==
  IF c[2] = 0
  THEN <<FreeAll(c[1], Reverse(p)), 0>>
  ELSE bluestein_store(Rd(Rd(c[1], p[7], Range(n)), p[8], Range(n)), p, real, imag, n, ct, sn)

\* lines 370-378: b, then the convolution of a and b
bluestein_convolve(M, p, real, imag, n, m, ct, sn) ==
  bluestein_post(
    convolve_complex(Wr(Wr(Rd(Rd(M, p[1], {0}), p[2], {0}), p[5], Symmetric(ct, n, m)), p[6], Symmetric(sn, n, m)),
                     p[3], p[4], p[5], p[6], p[7], p[8], m),
    p, real, imag, n, ct, sn)

\* lines 366-369: areal[i] = real[i]*cos + imag[i]*sin; aimag[i] = -real[i]*sin + imag[i]*cos
bluestein_pre(M, p, real, imag, n, m, ct, sn) ==
  bluestein_convolve(
    Wr(Wr(Rd(Rd(Rd(Rd(M, real, Range(n)), imag, Range(n)), p[1], Range(n)), p[2], Range(n)),
          p[3], [i \in Range(n) |-> RotRe(Val(M, real, i), Val(M, imag, i), ct[i], sn[i])]),
       p[4], [i \in Range(n) |-> RotIm(Val(M, real, i), Val(M, imag, i), ct[i], sn[i])]),
    p, real, imag, n, m, ct, sn)

\* lines 357-363: the chirp tables are in place
bluestein_chirp(M, p, real, imag, n, m) ==
  bluestein_pre(M, p, real, imag, n, m, Arr(M, p[1], n), Arr(M, p[2], n))

\* lines 351-355: A is <<machine, the eight pointers>>
bluestein_alloc(A, real, imag, n, m) ==
  IF AnyNull(A[2])
  THEN <<FreeAll(A[1], Reverse(A[2])), 0>>
  ELSE bluestein_chirp(Wr(Wr(A[1], A[2][1], ChirpCos(n)), A[2][2], ChirpSin(n)), A[2], real, imag, n, m)

\* lines 333-350: m is the working length, or -1
bluestein_sized(M, real, imag, n, m) ==
  IF m = -1 THEN <<M, 0>>
  ELSE IF BytesTooBig(n, m) THEN <<M, 0>>
  ELSE bluestein_alloc(
         AllocSeq(M, <<Uninit(ByteSize(n)), Uninit(ByteSize(n)), Cleared(m), Cleared(m),
                       Cleared(m), Cleared(m), Uninit(ByteSize(m)), Uninit(ByteSize(m))>>, <<>>),
         real, imag, n, m)

transform_bluestein_body(M, real, imag, n) ==
  IF BluesteinTooBig(n) THEN <<M, 0>>
  ELSE bluestein_sized(M, real, imag, n, FindM(1, Target(n)))

\* the frame is counted as an open Bluestein frame while it runs
OpenBluestein(M) == [M EXCEPT !.bd = @ + 1]

CloseBluestein(R) == <<[R[1] EXCEPT !.bd = @ - 1], R[2]>>

transform_bluestein(M, real, imag, n) ==
  Leave(CloseBluestein(transform_bluestein_body(OpenBluestein(Enter(M)), real, imag, n)), "transform_bluestein", n)

(***************************************************************************)
(* convolve_complex.  p is <<xr, xi, yr, yi>>, the copies of the operands. *)
(***************************************************************************)
\* lines 474-485: the scaling into outreal, outimag
convolve_scale(M, p, outreal, outimag, n) ==
  <<FreeAll(Wr(Wr(M, outreal, [i \in Range(n) |-> Scale(Val(M, p[1], i), n)]),
               outimag, [i \in Range(n) |-> Scale(Val(M, p[2], i), n)]),
            Reverse(p)), 1>>

\* lines 472-473: t is what inverse_transform returned
convolve_inverse(t, p, outreal, outimag, n) ==
  IF t[2] = 0 THEN <<FreeAll(t[1], Reverse(p)), 0>>
  ELSE convolve_scale(Rd(Rd(t[1], p[1], Range(n)), p[2], Range(n)), p, outreal, outimag, n)

\* lines 467-472: the pointwise product, then the inverse transform
convolve_product(M, p, outreal, outimag, n) ==
  convolve_inverse(
    inverse_transform(
      Wr(Wr(Rd(Rd(Rd(Rd(M, p[1], Range(n)), p[2], Range(n)), p[3], Range(n)), p[4], Range(n)),
            p[2], [i \in Range(n) |-> ProductIm(Val(M, p[1], i), Val(M, p[2], i), Val(M, p[3], i), Val(M, p[4], i))]),
         p[1], [i \in Range(n) |-> ProductRe(Val(M, p[1], i), Val(M, p[2], i), Val(M, p[3], i), Val(M, p[4], i))]),
      p[1], p[2], n),
    p, outreal, outimag, n)

\* lines 465-466: t is what transform(yr, yi, n) returned
convolve_second(t, p, outreal, outimag, n) ==
  IF t[2] = 0 THEN <<FreeAll(t[1], Reverse(p)), 0>>
  ELSE convolve_product(t[1], p, outreal, outimag, n)

\* lines 463-465: t is what transform(xr, xi, n) returned
convolve_first(t, p, outreal, outimag, n) ==
  IF t[2] = 0 THEN <<FreeAll(t[1], Reverse(p)), 0>>
  ELSE convolve_second(transform(t[1], p[3], p[4], n), p, outreal, outimag, n)

\* lines 460-463: A is <<machine, <<xr, xi, yr, yi>>>>
convolve_dup(A, outreal, outimag, n) ==
  IF AnyNull(A[2]) THEN <<FreeAll(A[1], Reverse(A[2])), 0>>
  ELSE convolve_first(transform(A[1], A[2][1], A[2][2], n), A[2], outreal, outimag, n)

convolve_complex_body(M, xreal, ximag, yreal, yimag, outreal, outimag, n) ==
  IF ConvolveTooBig(n) THEN <<M, 0>>
  ELSE convolve_dup(DupSeq(M, <<xreal, ximag, yreal, yimag>>, ByteSize(n), <<>>), outreal, outimag, n)

convolve_complex(M, xreal, ximag, yreal, yimag, outreal, outimag, n) ==
  Leave(convolve_complex_body(Enter(M), xreal, ximag, yreal, yimag, outreal, outimag, n), "convolve_complex", n)

\* convolve_real returning without its cleanup
convolve_real_done_leak(c, p) == c

\* int convolve_real(const double x[], const double y[], double out[], size_t n)
\* lines 439-444: c is what convolve_complex returned
convolve_real_done(c, p) == <<FreeAll(c[1], Reverse(p)), c[2]>>

\* lines 436-439: A is <<machine, <<ximag, yimag, zimag>>>>
convolve_real_alloc(A, x, y, out, n) ==
  IF AnyNull(A[2]) THEN <<FreeAll(A[1], Reverse(A[2])), 0>>
  ELSE convolve_real_done(convolve_complex(A[1], x, A[2][1], y, A[2][2], out, A[2][3], n), A[2])

convolve_real_body(M, x, y, out, n) ==
  convolve_real_alloc(AllocSeq(M, <<Cleared(n), Cleared(n), Cleared(n)>>, <<>>), x, y, out, n)

convolve_real(M, x, y, out, n) == Leave(convolve_real_body(Enter(M), x, y, out, n), "convolve_real", n)

\* ------------------------------------------------- dual-real packing, abs
\* the symbol for the non-negative square root of x (not a member of the field)
Root(x) == <<x[1], x[2], x[3], x[4], x[5], 2>>

\* 2 * (sqrt(re * re + im * im) / n)
Magnitude(re, im, n) == Root(DivInt(DivInt(Mul(Num(4), Add(Mul(re, re), Mul(im, im))), n), n))

\* the indices the split loop stores: k and n - k for k = 1 .. n/2 - 1
Mirrored(n) == (1 .. (n \div 2 - 1)) \cup {n - k : k \in 1 .. (n \div 2 - 1)}

\* the loop index k that stores index i
LoopK(i, n) == IF i < n \div 2 THEN i ELSE n - i

\* X1_real[n/2] = X_imag[n/2];
X1RealAtHalf(Xr, Xi, n) == Tab(Xi, n \div 2)

\* X2_real[n/2] = X_imag[n/2];
X2RealAtHalf(Xr, Xi, n) == Tab(Xi, n \div 2)

\* X1_real[k] = 0.5 * (X_real[k] + X_real[n-k]); X1_real[n-k] = X1_real[k];
X1RealLoop(Xr, Xi, n) ==
  Table([i \in Mirrored(n) |-> Half(Add(Tab(Xr, LoopK(i, n)), Tab(Xr, n - LoopK(i, n))))])

\* X2_real[k] = 0.5 * (X_imag[k] + X_imag[n-k]); X2_real[n-k] = X2_real[k];
X2RealLoop(Xr, Xi, n) ==
  Table([i \in Mirrored(n) |-> Half(Add(Tab(Xi, LoopK(i, n)), Tab(Xi, n - LoopK(i, n))))])

\* v at the index the loop computes, -v at its mirror
Signed(v, i, n) == IF i < n \div 2 THEN v ELSE Neg(v)

\* X1_imag[k] = 0.5 * (X_imag[k] - X_imag[n-k]); X1_imag[n-k] = -X1_imag[k];
X1ImagLoop(Xr, Xi, n) ==
  Table([i \in Mirrored(n) |-> Signed(Half(Sub(Tab(Xi, LoopK(i, n)), Tab(Xi, n - LoopK(i, n)))), i, n)])

\* X2_imag[k] = -0.5 * (X_real[k] - X_real[n-k]); X2_imag[n-k] = -X2_imag[k];
X2ImagLoop(Xr, Xi, n) ==
  Table([i \in Mirrored(n) |-> Signed(Neg(Half(Sub(Tab(Xr, LoopK(i, n)), Tab(Xr, n - LoopK(i, n))))), i, n)])

\* lines 77-102: the split of the packed spectrum Xr + j Xi into X1 and X2;
\* o is <<X1_real, X1_imag, X2_real, X2_imag>>
SplitStores(M, o, Xr, Xi, n) ==
  Wr(Wr(Wr(Wr(
    Wr(Wr(Wr(Wr(
      Wr(Wr(Wr(Wr(M, o[1], 0 :> Tab(Xr, 0)), o[2], 0 :> Zero), o[3], 0 :> Tab(Xi, 0)), o[4], 0 :> Zero),
      o[1], (n \div 2) :> X1RealAtHalf(Xr, Xi, n)), o[3], (n \div 2) :> X2RealAtHalf(Xr, Xi, n)),
      o[2], (n \div 2) :> Zero), o[4], (n \div 2) :> Zero),
    o[1], X1RealLoop(Xr, Xi, n)), o[3], X2RealLoop(Xr, Xi, n)),
    o[2], X1ImagLoop(Xr, Xi, n)), o[4], X2ImagLoop(Xr, Xi, n))

Split(M, X_real, X_imag, o, n) ==
  SplitStores(Rd(Rd(M, X_real, {0} \cup Mirrored(n)), X_imag, {0, n \div 2} \cup Mirrored(n)),
              o, Arr(M, X_real, n), Arr(M, X_imag, n), n)

\* int fft_2signals(signal_1, signal_2, X1_real, X1_imag, X2_real, X2_imag, n)
\* lines 67-110: t is what transform returned, p is <<X_real, X_imag>>
fft_2signals_split(t, p, o, n) ==
  IF t[2] = 0
  THEN <<FreeAll(t[1], p), 0>>
  ELSE <<FreeAll(Split(t[1], p[1], p[2], o, n), p), 1>>

\* lines 61-67: A is <<machine, <<X_real, X_imag>>>>; no test of the pointers
fft_2signals_pack(A, signal_1, signal_2, o, n) ==
  fft_2signals_split(
    transform(Wr(Wr(Rd(Rd(A[1], signal_1, Range(n)), signal_2, Range(n)),
                    A[2][1], Arr(A[1], signal_1, n)), A[2][2], Arr(A[1], signal_2, n)),
              A[2][1], A[2][2], n),
    A[2], o, n)

fft_2signals_body(M, signal_1, signal_2, o, n) ==
  fft_2signals_pack(AllocSeq(M, <<Uninit(ByteSize(n)), Uninit(ByteSize(n))>>, <<>>), signal_1, signal_2, o, n)

fft_2signals(M, signal_1, signal_2, X1_real, X1_imag, X2_real, X2_imag, n) ==
  Leave(fft_2signals_body(Enter(M), signal_1, signal_2, <<X1_real, X1_imag, X2_real, X2_imag>>, n), "fft_2signals", n)

\* int abs_fft_2signals(signal_1, signal_2, X1, X2, n)
\* lines 147-150: X1[i] and X2[i] for i < n/2 + 1
abs_fft_2signals_mag(M, p, X1, X2, n) ==
  Wr(Wr(M, X1, [i \in Range(n \div 2 + 1) |-> Magnitude(Val(M, p[1], i), Val(M, p[2], i), n)]),
     X2, [i \in Range(n \div 2 + 1) |-> Magnitude(Val(M, p[3], i), Val(M, p[4], i), n)])

\* the reads of lines 148-149
abs_fft_2signals_read(M, p, n) ==
  Rd(Rd(Rd(Rd(M, p[1], Range(n \div 2 + 1)), p[2], Range(n \div 2 + 1)), p[3], Range(n \div 2 + 1)),
     p[4], Range(n \div 2 + 1))

\* lines 138-161: f is what fft_2signals returned
abs_fft_2signals_done(f, p, X1, X2, n) ==
  IF f[2] = 0
  THEN <<FreeAll(f[1], p), 0>>
  ELSE <<FreeAll(abs_fft_2signals_mag(abs_fft_2signals_read(f[1], p, n), p, X1, X2, n), p), 1>>

\* lines 132-141: A is <<machine, <<X1_real, X1_imag, X2_real, X2_imag>>>>; no test
abs_fft_2signals_alloc(A, signal_1, signal_2, X1, X2, n) ==
  abs_fft_2signals_done(fft_2signals(A[1], signal_1, signal_2, A[2][1], A[2][2], A[2][3], A[2][4], n),
                        A[2], X1, X2, n)

abs_fft_2signals_body(M, signal_1, signal_2, X1, X2, n) ==
  abs_fft_2signals_alloc(
    AllocSeq(M, <<Uninit(ByteSize(n)), Uninit(ByteSize(n)), Uninit(ByteSize(n)), Uninit(ByteSize(n))>>, <<>>),
    signal_1, signal_2, X1, X2, n)

abs_fft_2signals(M, signal_1, signal_2, X1, X2, n) ==
  Leave(abs_fft_2signals_body(Enter(M), signal_1, signal_2, X1, X2, n), "abs_fft_2signals", n)

\* int abs_fft(double* signal, double* abs_onesided_fft, size_t n)
\* lines 190-192
abs_fft_mag(M, real, imag, abs_onesided_fft, n) ==
  Wr(M, abs_onesided_fft, [i \in Range(n \div 2 + 1) |-> Magnitude(Val(M, real, i), Val(M, imag, i), n)])

\* lines 186-198: t is what transform returned
abs_fft_done(t, real, imag, abs_onesided_fft, n) ==
  IF t[2] # 0
  THEN <<FreeAll(abs_fft_mag(Rd(Rd(t[1], real, Range(n \div 2 + 1)), imag, Range(n \div 2 + 1)),
                             real, imag, abs_onesided_fft, n), <<real, imag>>), t[2]>>
  ELSE <<FreeAll(t[1], <<real, imag>>), t[2]>>

\* line 183: a2 is what zero_reals returned
abs_fft_zero(a2, real, abs_onesided_fft, n) ==
  abs_fft_done(transform(a2[1], real, a2[2], n), real, a2[2], abs_onesided_fft, n)

\* line 182: a1 is what memdup returned
abs_fft_dup(a1, abs_onesided_fft, n) == abs_fft_zero(zero_reals(a1[1], n), a1[2], abs_onesided_fft, n)

abs_fft_body(M, signal, abs_onesided_fft, n) == abs_fft_dup(memdup(M, signal, ByteSize(n)), abs_onesided_fft, n)

abs_fft(M, signal, abs_onesided_fft, n) == Leave(abs_fft_body(Enter(M), signal, abs_onesided_fft, n), "abs_fft", n)

\* ------------------------------------------------------ the state machine
(***************************************************************************)
(* A caller owns the input buffers 1..4 of length n and hands the library  *)
(* fresh output buffers 5..8 with each call.                               *)
(*   n      the length every call is given                                 *)
(*   orig   the input buffers as first filled                              *)
(*   mach   the machine after the last call                                *)
(*   pre    the input buffers before the last call                         *)
(*   hist   the calls made: operation and return value (-1: the call       *)
(*          trapped on an invalid access and never returned)               *)
(* The sizes a call computes are followed step by step, over every length  *)
(* of the size type, in                                                    *)
(*   stack    the frames of the calls in progress, the running one last    *)
(*   ret      the last return: function, length, value, what it allocated  *)
(*   entered  how often transform_bluestein was entered                    *)
(***************************************************************************)
VARIABLES n, orig, mach, pre, hist, stack, ret, entered

vars == <<n, orig, mach, pre, hist, stack, ret, entered>>

dataVars == <<n, orig, mach, pre, hist>>

sizeVars == <<stack, ret, entered>>

NoReturn == [fn |-> "none", n |-> 0, val |-> 0, allocs |-> 0, wrapped |-> FALSE]

MaxCalls == 2

InputIds == 1 .. 4

Slots(k) == {1, 2} \X Range(k)

Supports(k) == {P \in SUBSET Slots(k) : Cardinality(P) <= MaxNonZero}

NonZero == 1 .. MaxVal

\* the buffers 1 and 2 a caller may hold: at most MaxNonZero samples are not 0
Inputs(k) ==
  UNION {{[b \in {1, 2} |-> Table([i \in Range(k) |-> Num(IF <<b, i>> \in P THEN f[<<b, i>>] ELSE 0)])] :
            f \in [P -> NonZero]} : P \in Supports(k)}

Impulse(k, at) == Table([i \in Range(k) |-> Num(IF i = at THEN 1 ELSE 0)])

\* the buffers 3 and 4 (the second operand of convolve_complex)
YInput(k) == <<Impulse(k, 0), Impulse(k, k - 1)>>

\* the input under which refused allocations are explored (no branch of the
\* code depends on a sample's value)
Probe(k) == [b \in {1, 2} |-> Impulse(k, IF b = 1 \/ k < 2 THEN 0 ELSE 1)]

Buffers(ab, y) == (1 :> ab[1]) @@ (2 :> ab[2]) @@ (3 :> y[1]) @@ (4 :> y[2])

Machine0(bufs, F) ==
  [mem |-> bufs, nalloc |-> 0, base |-> 0, failAt |-> F, nullRet |-> 0, nfree |-> 0,
   nullAcc |-> FALSE, oob |-> FALSE, badFree |-> FALSE, rd |-> {}, wr |-> {},
   lvl |-> 0, bd |-> 0, log |-> <<>>, perm |-> {}]

\* the allocation requests the longest call makes on length k
AllocHorizon(k) == convolve_real(Machine0((5 :> Garbage(k)) @@ Buffers(Probe(k), YInput(k)), {}), 1, 2, 5, k)[1].nalloc

\* the sets of at most j of the first h allocation requests
RECURSIVE UpTo(_, _)
UpTo(j, h) ==
  IF j = 0 THEN {{}}
  ELSE LET S == UpTo(j - 1, h) IN S \cup {F \cup {a} : F \in S, a \in 1 .. h}

\* the allocation requests the allocator may refuse: between 1 and MaxFail
FailSets(k) == UpTo(MaxFail, AllocHorizon(k)) \ {{}}

InitWith(k, ab, y, F) ==
  /\ n = k
  /\ orig = Buffers(ab, y)
  /\ mach = Machine0(orig, F)
  /\ pre = orig
  /\ hist = <<>>
  /\ stack = <<>>
  /\ ret = NoReturn
  /\ entered = 0

Init ==
  \E k \in Lengths :
    \/ \E ab \in Inputs(k) : InitWith(k, ab, YInput(k), {})
    \/ \E F \in FailSets(k) : InitWith(k, Probe(k), YInput(k), F)

\* the machine as a call starts: the per-call records are cleared and the
\* caller's fresh output buffers, of the lengths given, are in place
Begin(outs) ==
  [mach EXCEPT !.base = mach.nalloc, !.nullRet = 0, !.nfree = 0, !.nullAcc = FALSE,
               !.oob = FALSE, !.badFree = FALSE, !.rd = {}, !.wr = {}, !.log = <<>>,
               !.perm = {},
               !.mem = outs @@ Table([q \in (DOMAIN @) \ (5 .. 8) |-> @[q]])]

NoOut == <<>>

Outs(ids, len) == Table([q \in ids |-> Garbage(len)])

\* an invalid access was made
Faulted(M) == M.nullAcc \/ M.oob

\* the calls that change the caller's inputs
InPlace == {"transform", "inverse_transform", "transform_radix2", "transform_bluestein"}

\* A later call is explored only after an in-place transform: the other calls
\* leave the inputs as they were, so a call after them sees what a first call
\* sees.  A call that trapped ended the program.
CanCall ==
  IF hist = <<>> THEN TRUE
  ELSE Len(hist) < MaxCalls /\ hist[Len(hist)].op \in InPlace /\ hist[Len(hist)].ret # -1

\* the call returns R = <<machine, status>>, or traps at an invalid access
Finish(op, R) ==
  /\ CanCall
  /\ pre' = Table([q \in InputIds |-> mach.mem[q]])
  /\ \/ /\ mach' = R[1]
        /\ hist' = Append(hist, [op |-> op, ret |-> R[2]])
     \/ /\ Faulted(R[1])
        /\ mach' = [mach EXCEPT !.nullAcc = R[1].nullAcc, !.oob = R[1].oob]
        /\ hist' = Append(hist, [op |-> op, ret |-> -1])
  /\ UNCHANGED <<n, orig>>
  /\ UNCHANGED sizeVars

Call_transform == Finish("transform", transform(Begin(NoOut), 1, 2, n))

Call_inverse_transform == Finish("inverse_transform", inverse_transform(Begin(NoOut), 1, 2, n))

Call_transform_radix2 == Finish("transform_radix2", transform_radix2(Begin(NoOut), 1, 2, n))

\* only the lengths whose working length m has twiddle factors in the field
BluesteinLengths == {0, 1, 2, 3}

Call_transform_bluestein ==
  /\ n \in BluesteinLengths
  /\ Finish("transform_bluestein", transform_bluestein(Begin(NoOut), 1, 2, n))

Call_convolve_real == Finish("convolve_real", convolve_real(Begin(Outs({5}, n)), 1, 2, 5, n))

Call_convolve_complex ==
  Finish("convolve_complex", convolve_complex(Begin(Outs({5, 6}, n)), 1, 2, 3, 4, 5, 6, n))

Call_fft_2signals ==
  Finish("fft_2signals", fft_2signals(Begin(Outs({5, 6, 7, 8}, n)), 1, 2, 5, 6, 7, 8, n))

Call_abs_fft_2signals ==
  Finish("abs_fft_2signals", abs_fft_2signals(Begin(Outs({5, 6}, n \div 2 + 1)), 1, 2, 5, 6, n))

Call_abs_fft == Finish("abs_fft", abs_fft(Begin(Outs({5}, n \div 2 + 1)), 1, 5, n))

Next ==
  \/ Call_transform
  \/ Call_inverse_transform
  \/ Call_transform_radix2
  \/ Call_transform_bluestein
  \/ Call_convolve_real
  \/ Call_convolve_complex
  \/ Call_fft_2signals
  \/ Call_abs_fft_2signals
  \/ Call_abs_fft

Spec == Init /\ [][Next]_vars


\* ------------------------------------------- the sizes, over every length
MaxFrames == 12

\* a frame: the function, its argument n, where it stands (pc), whether it
\* waits for a callee, the callee's result (val), the locals target and m,
\* the allocation requests it made, and whether a size it computed wrapped
Frame(fn, len) ==
  [fn |-> fn, n |-> len, pc |-> "entry", wait |-> FALSE, val |-> 0, target |-> 0, m |-> 0,
   allocs |-> 0, wrapped |-> FALSE]

Top == stack[Len(stack)]

Running(fn, pcs) == stack # <<>> /\ Top.fn = fn /\ Top.pc \in pcs

Wraps(x) == Wrap(x) # x

\* the running frame is replaced
Goto(f) ==
  /\ stack' = [stack EXCEPT ![Len(stack)] = f]
  /\ UNCHANGED <<ret, entered>>
  /\ UNCHANGED dataVars

\* the running frame f returns v to its caller
Return(f, v) ==
  /\ ret' = [fn |-> f.fn, n |-> f.n, val |-> v, allocs |-> f.allocs, wrapped |-> f.wrapped]
  /\ stack' = IF Len(stack) = 1 THEN <<>>
              ELSE [SubSeq(stack, 1, Len(stack) - 1) EXCEPT ![Len(stack) - 1].val = v,
                                                             ![Len(stack) - 1].wait = FALSE]
  /\ UNCHANGED entered
  /\ UNCHANGED dataVars

\* the running frame calls fn(len) and waits at pc
Call(pc, fn, len) ==
  /\ Len(stack) < MaxFrames
  /\ stack' = Append([stack EXCEPT ![Len(stack)].pc = pc, ![Len(stack)].wait = TRUE], Frame(fn, len))
  /\ entered' = IF fn = "transform_bluestein" THEN entered + 1 ELSE entered
  /\ UNCHANGED ret
  /\ UNCHANGED dataVars

\* transform, lines 226-233
Step_transform ==
  /\ Running("transform", {"entry"})
  /\ IF Dispatch(Top.n) = "none" THEN Return(Top, 1) ELSE Call("tail", Dispatch(Top.n), Top.n)

\* inverse_transform, line 237
Step_inverse_transform ==
  /\ Running("inverse_transform", {"entry"})
  /\ Call("tail", "transform", Top.n)

\* return transform_radix2(...); return transform_bluestein(...); return transform(...)
Step_tail ==
  /\ stack # <<>>
  /\ Top.fn \in {"transform", "inverse_transform"} /\ Top.pc = "tail"
  /\ Return(Top, Top.val)

\* transform_radix2, lines 249-263
Step_radix2_levels ==
  /\ Running("transform_radix2", {"entry"})
  /\ IF NotPowerOf2(Top.n) \/ Radix2TableTooBig(Top.n)
     THEN Return(Top, 0)
     ELSE Goto([Top EXCEPT !.pc = "alloc", !.wrapped = @ \/ Wraps((Top.n \div 2) * SizeofDouble)])

\* transform_radix2, lines 264-311: the two tables are given or refused; the
\* loops over i < n and size <= n end
Step_radix2_alloc ==
  /\ Running("transform_radix2", {"alloc"})
  /\ \E ok \in BOOLEAN : Return([Top EXCEPT !.allocs = @ + 2], IF ok THEN 1 ELSE 0)

\* transform_bluestein, lines 329-332
Step_bluestein_guard ==
  /\ Running("transform_bluestein", {"entry"})
  /\ IF BluesteinTooBig(Top.n)
     THEN Return(Top, 0)
     ELSE Goto([Top EXCEPT !.pc = "loop", !.target = Target(Top.n), !.m = 1,
                           !.wrapped = @ \/ Wraps(Top.n * 2 + 1)])

\* transform_bluestein, lines 332-335: one pass of the doubling loop
Step_bluestein_loop ==
  /\ Running("transform_bluestein", {"loop"})
  /\ IF Top.m < Top.target
     THEN IF GrowGuard(Top.m)
          THEN Return(Top, 0)
          ELSE Goto([Top EXCEPT !.m = Grow(Top.m), !.wrapped = @ \/ Wraps(Top.m * 2)])
     ELSE Goto([Top EXCEPT !.pc = "bytes"])

\* transform_bluestein, lines 339-342
Step_bluestein_bytes ==
  /\ Running("transform_bluestein", {"bytes"})
  /\ IF BytesTooBig(Top.n, Top.m)
     THEN Return(Top, 0)
     ELSE Goto([Top EXCEPT !.pc = "alloc",
                           !.wrapped = @ \/ Wraps(Top.n * SizeofDouble) \/ Wraps(Top.m * SizeofDouble)])

\* transform_bluestein, lines 343-355: the eight buffers are given or refused
Step_bluestein_alloc ==
  /\ Running("transform_bluestein", {"alloc"})
  /\ \E ok \in BOOLEAN :
       IF ok THEN Goto([Top EXCEPT !.pc = "convolve", !.allocs = @ + 8])
       ELSE Return([Top EXCEPT !.allocs = @ + 8], 0)

\* transform_bluestein, line 378
Step_bluestein_convolve ==
  /\ Running("transform_bluestein", {"convolve"})
  /\ Call("post", "convolve_complex", Top.m)

\* transform_bluestein, lines 378-398
Step_bluestein_post ==
  /\ Running("transform_bluestein", {"post"})
  /\ Return(Top, IF Top.val = 0 THEN 0 ELSE 1)

\* convolve_complex, lines 453-455
Step_convolve_guard ==
  /\ Running("convolve_complex", {"entry"})
  /\ IF ConvolveTooBig(Top.n)
     THEN Return(Top, 0)
     ELSE Goto([Top EXCEPT !.pc = "dup", !.wrapped = @ \/ Wraps(Top.n * SizeofDouble)])

\* convolve_complex, lines 456-461: the four copies are given or refused
Step_convolve_dup ==
  /\ Running("convolve_complex", {"dup"})
  /\ \E ok \in BOOLEAN :
       IF ok THEN Goto([Top EXCEPT !.pc = "first", !.allocs = @ + 4])
       ELSE Return([Top EXCEPT !.allocs = @ + 4], 0)

\* convolve_complex, lines 463, 465, 472: the calls
Step_convolve_call ==
  \/ /\ Running("convolve_complex", {"first"})
     /\ Call("after_first", "transform", Top.n)
  \/ /\ Running("convolve_complex", {"second"})
     /\ Call("after_second", "transform", Top.n)
  \/ /\ Running("convolve_complex", {"third"})
     /\ Call("after_third", "inverse_transform", Top.n)

\* convolve_complex, lines 463-485: if (!transform(...)) goto cleanup;
Step_convolve_after ==
  /\ Running("convolve_complex", {"after_first", "after_second", "after_third"})
  /\ IF Top.val = 0 THEN Return(Top, 0)
     ELSE IF Top.pc = "after_first" THEN Goto([Top EXCEPT !.pc = "second"])
     ELSE IF Top.pc = "after_second" THEN Goto([Top EXCEPT !.pc = "third"])
     ELSE Return(Top, 1)

Entries == {"transform", "transform_bluestein"}

InitSize ==
  /\ n = 0
  /\ orig = <<>>
  /\ mach = Machine0(<<>>, {})
  /\ pre = <<>>
  /\ hist = <<>>
  /\ \E fn \in Entries, len \in 0 .. SIZE_MAX : stack = <<Frame(fn, len)>>
  /\ ret = NoReturn
  /\ entered = IF stack[1].fn = "transform_bluestein" THEN 1 ELSE 0

NextSize ==
  \/ Step_transform
  \/ Step_inverse_transform
  \/ Step_tail
  \/ Step_radix2_levels
  \/ Step_radix2_alloc
  \/ Step_bluestein_guard
  \/ Step_bluestein_loop
  \/ Step_bluestein_bytes
  \/ Step_bluestein_alloc
  \/ Step_bluestein_convolve
  \/ Step_bluestein_post
  \/ Step_convolve_guard
  \/ Step_convolve_dup
  \/ Step_convolve_call
  \/ Step_convolve_after

SpecSize == InitSize /\ [][NextSize]_vars

\* a call in progress is not suspended for ever
FairSpecSize == SpecSize /\ WF_vars(NextSize)


\* ------------------------------------------------------------ the claims
Last == hist[Len(hist)]

\* the last call was op and it returned (it did not trap)
Returned(op) == hist # <<>> /\ Last.op = op /\ Last.ret # -1

PowersOfTwo == {2 ^ k : k \in 0 .. SizeBits}

\* the spectrum transform computes for the signal re + j im, on a machine of its own
Spectrum(re, im, len) ==
  LET R == transform(Machine0((1 :> re) @@ (2 :> im), {}), 1, 2, len)
  IN  <<R[1].mem[1], R[1].mem[2], R[2]>>

\* C1: fft_2signals(s1, s2, n), for even n >= 2 and no allocation refused,
\* returns success with X1 = transform(s1) and X2 = transform(s2) at every
\* bin, real and imaginary parts, bins 0 and n/2 included.
C1_PackingEquivalence ==
  (hist # <<>> /\ Last.op = "fft_2signals" /\ n >= 2 /\ n % 2 = 0 /\ mach.failAt = {}) =>
    /\ Last.ret = 1
    /\ \A k \in Range(n) :
         /\ mach.mem[5][k] = Spectrum(pre[1], Zeros(n), n)[1][k]
         /\ mach.mem[6][k] = Spectrum(pre[1], Zeros(n), n)[2][k]
         /\ mach.mem[7][k] = Spectrum(pre[2], Zeros(n), n)[1][k]
         /\ mach.mem[8][k] = Spectrum(pre[2], Zeros(n), n)[2][k]

\* the return records of the last call whose function is transform
TransformReturns == {i \in DOMAIN mach.log : mach.log[i].fn = "transform"}

\* the engine the dispatcher is to take for a length
Engine(len) == IF len \in PowersOfTwo THEN "transform_radix2" ELSE "transform_bluestein"

\* C2: transform dispatches on n alone: n = 0 returns 1 and calls nothing
\* (a top-level call then reads and writes nothing); a power of two goes to
\* transform_radix2 and never to transform_bluestein; every other n goes to
\* transform_bluestein; the engine's return value is transform's.
C2_Dispatch ==
  (hist # <<>> /\ Last.ret # -1) =>
    /\ \A i \in TransformReturns :
         IF mach.log[i].n = 0
         THEN /\ mach.log[i].ret = 1
              /\ i > 1 => mach.log[i - 1].lvl <= mach.log[i].lvl
         ELSE /\ i > 1
              /\ mach.log[i - 1].lvl = mach.log[i].lvl + 1
              /\ mach.log[i - 1].fn = Engine(mach.log[i].n)
              /\ mach.log[i - 1].n = mach.log[i].n
              /\ mach.log[i - 1].ret = mach.log[i].ret
    /\ (Last.op = "transform" /\ n = 0) =>
         Last.ret = 1 /\ mach.rd = {} /\ mach.wr = {} /\ Len(mach.log) = 1
    /\ (Last.op = "transform" /\ n \in PowersOfTwo) =>
         \A i \in DOMAIN mach.log : mach.log[i].fn # "transform_bluestein"

C2_Witness ==
  /\ Returned("transform") /\ n = 3 /\ Last.ret = 1
  /\ \E i \in DOMAIN mach.log : mach.log[i].fn = "transform_bluestein" /\ mach.log[i].lvl = 2
  /\ \E i \in DOMAIN mach.log : mach.log[i].fn = "transform_radix2" /\ mach.log[i].n = 8

\* sum over t in from .. len - 1 of x[t] * y[(k - t) mod len]
RECURSIVE CircularSum(_, _, _, _, _)
CircularSum(x, y, k, from, len) ==
  IF from >= len THEN Zero
  ELSE Add(Mul(x[from], y[(k - from + len) % len]), CircularSum(x, y, k, from + 1, len))

\* C3: convolve_real(x, y, out, n), for n >= 1, on success sets
\* out[k] = sum over t of x[t] * y[(k - t) mod n] for every k: the 1/n
\* rescale is applied exactly once.
C3_ConvolutionTheorem ==
  (Returned("convolve_real") /\ Last.ret = 1 /\ n >= 1) =>
    \A k \in Range(n) : mach.mem[5][k] = CircularSum(pre[1], pre[2], k, 0, n)

C3_Witness ==
  /\ Returned("convolve_real") /\ Last.ret = 1 /\ n = 3
  /\ pre[1][1] # Zero /\ pre[2][2] # Zero
  /\ mach.mem[5][0] # Zero

\* C4: for every complex signal of length n >= 1, transform and then
\* inverse_transform, both succeeding, and a division of every sample by n
\* give back the original signal at every index.
C4_RoundTrip ==
  (/\ Len(hist) = 2
   /\ hist[1].op = "transform" /\ hist[1].ret = 1
   /\ hist[2].op = "inverse_transform" /\ hist[2].ret = 1
   /\ n >= 1) =>
    \A k \in Range(n) :
      /\ DivInt(mach.mem[1][k], n) = orig[1][k]
      /\ DivInt(mach.mem[2][k], n) = orig[2][k]

C4_Witness ==
  /\ Len(hist) = 2 /\ n = 3
  /\ hist[1].op = "transform" /\ hist[1].ret = 1
  /\ hist[2].op = "inverse_transform" /\ hist[2].ret = 1
  /\ orig[1][1] # Zero /\ orig[2][2] # Zero
  /\ pre[1] # orig[1]

\* C5: in every public operation, if one of its allocations returns NULL the
\* operation returns 0 and no NULL buffer is read or written before it
\* returns (stated for the lengths n >= 1).
C5_AllocationFailureReported ==
  (hist # <<>> /\ n >= 1 /\ mach.nullRet > 0) => (Last.ret = 0 /\ ~mach.nullAcc)

\* C6: after every return of every public operation, whatever allocations
\* were refused and whatever inner calls failed, every buffer the call
\* allocated has been freed exactly once: no buffer of the library is live.
C6_NoLeaks ==
  (hist # <<>> /\ Last.ret # -1) =>
    /\ Live(mach) = {}
    /\ ~mach.badFree
    /\ mach.nfree = mach.nalloc - mach.base - mach.nullRet

\* a refusal deep in the chain transform -> transform_bluestein ->
\* convolve_complex -> transform_radix2, with buffers to give back at every level
C6_Witness ==
  /\ Returned("transform") /\ n = 3 /\ Last.ret = 0
  /\ mach.nullRet = 1 /\ mach.nfree >= 13
  /\ \E i \in DOMAIN mach.log :
       mach.log[i].fn = "transform_radix2" /\ mach.log[i].ret = 0 /\ mach.log[i].bd = 1

\* the indices a list of swaps moves i through
RECURSIVE Moved(_, _)
Moved(i, swaps) ==
  IF swaps = <<>> THEN i
  ELSE Moved(IF Head(swaps)[1] = i THEN Head(swaps)[2]
             ELSE IF Head(swaps)[2] = i THEN Head(swaps)[1] ELSE i, Tail(swaps))

\* C9: for n = 2^levels, after the permutation loop of transform_radix2 the
\* sample that was at index i is at index reverse_bits(i, levels), in both
\* arrays; each pair {i, reverse_bits(i)} of distinct indices is swapped
\* exactly once; reverse_bits(., levels) is an involution on 0..n-1; every
\* index touched is inside 0..n-1.
C9_BitReversal ==
  \A r \in mach.perm :
    /\ r.n = 2 ^ r.levels
    /\ \A i \in Range(r.n) :
         /\ reverse_bits(i, r.levels) \in Range(r.n)
         /\ reverse_bits(reverse_bits(i, r.levels), r.levels) = i
         /\ r.after[1][reverse_bits(i, r.levels)] = r.before[1][i]
         /\ r.after[2][reverse_bits(i, r.levels)] = r.before[2][i]
         /\ Moved(i, r.swaps) = reverse_bits(i, r.levels)
         /\ i # reverse_bits(i, r.levels) =>
              Cardinality({s \in DOMAIN r.swaps :
                             {r.swaps[s][1], r.swaps[s][2]} = {i, reverse_bits(i, r.levels)}}) = 1
    /\ \A s \in DOMAIN r.swaps : r.swaps[s][1] \in Range(r.n) /\ r.swaps[s][2] \in Range(r.n)
    /\ DOMAIN r.after[1] = Range(r.n) /\ DOMAIN r.after[2] = Range(r.n)

C9_Witness ==
  \E r \in mach.perm :
    /\ r.n = 8 /\ Len(r.swaps) = 2
    /\ r.before[1][1] # Zero /\ r.after[1][4] = r.before[1][1] /\ r.after[1][1] = Zero

\* C10: when transform, transform_radix2 or transform_bluestein returns 0
\* the caller's real and imaginary arrays hold what they held at entry and
\* were not written; convolve_complex never writes its operands, and writes
\* outreal and outimag only when it returns success.
C10_UnchangedOnFailure ==
  /\ (hist # <<>> /\ Last.op \in {"transform", "transform_radix2", "transform_bluestein"} /\ Last.ret = 0) =>
       /\ mach.mem[1] = pre[1] /\ mach.mem[2] = pre[2]
       /\ mach.wr = {}
  /\ Returned("convolve_complex") =>
       /\ \A q \in InputIds : mach.mem[q] = pre[q]
       /\ mach.wr \cap InputIds = {}
       /\ Last.ret = 0 => (mach.wr = {} /\ mach.mem[5] = Garbage(n) /\ mach.mem[6] = Garbage(n))

\* the inner convolution of transform_bluestein failed after the chirp was applied
C10_Witness ==
  /\ Returned("transform_bluestein") /\ Last.ret = 0 /\ n = 3
  /\ \E i \in DOMAIN mach.log : mach.log[i].fn = "convolve_complex" /\ mach.log[i].ret = 0
  /\ mach.mem[2] # Zeros(3)

\* the smallest power of two that is at least t
SmallestPowerOfTwo(t) == CHOOSE p \in PowersOfTwo : p >= t /\ \A q \in PowersOfTwo : q >= t => p <= q

\* C7: in transform_bluestein, every n with 2n+1 > 2^w - 1 returns failure
\* before any allocation; for an accepted n neither target = 2n+1 nor any m
\* of the doubling loop wraps modulo 2^w; the byte sizes n*sizeof(double)
\* and m*sizeof(double) are computed only when they do not wrap.
C7_OverflowGuard ==
  /\ \A i \in DOMAIN stack :
       stack[i].fn = "transform_bluestein" =>
         /\ ~stack[i].wrapped
         /\ stack[i].pc # "entry" =>
              /\ 2 * stack[i].n + 1 <= 2 ^ SizeBits - 1
              /\ stack[i].target = 2 * stack[i].n + 1
              /\ stack[i].m \in PowersOfTwo /\ stack[i].m <= 2 ^ SizeBits - 1
         /\ stack[i].pc \in {"alloc", "convolve", "post"} =>
              /\ stack[i].n * SizeofDouble <= 2 ^ SizeBits - 1
              /\ stack[i].m * SizeofDouble <= 2 ^ SizeBits - 1
  /\ ret.fn = "transform_bluestein" =>
       /\ ~ret.wrapped
       /\ 2 * ret.n + 1 > 2 ^ SizeBits - 1 => (ret.val = 0 /\ ret.allocs = 0)

\* a length refused by the doubling loop: 2n+1 fits, the next m would not
C7_Witness ==
  /\ stack = <<>>
  /\ ret.fn = "transform_bluestein" /\ ret.val = 0 /\ ret.allocs = 0
  /\ 2 * ret.n + 1 <= 2 ^ SizeBits - 1 /\ 2 * ret.n + 1 > 2 ^ (SizeBits - 1)

C8_Routed ==
  /\ entered <= 1
  /\ \A i \in DOMAIN stack :
       (i > 1 /\ stack[i].fn = "convolve_complex" /\ stack[i - 1].fn = "transform_bluestein"
              /\ stack[i - 1].n >= 1) =>
         /\ stack[i].n = SmallestPowerOfTwo(2 * stack[i - 1].n + 1)
         /\ \A j \in DOMAIN stack :
              (j > i /\ stack[j].fn \in {"transform_radix2", "transform_bluestein"}) =>
                 (stack[j].fn = "transform_radix2" /\ stack[j].n = stack[i].n)

\* C8: for every n >= 1 accepted by transform_bluestein the length m passed
\* to convolve_complex is the smallest power of two with m >= 2n+1, so the
\* transforms convolve_complex runs on m go to transform_radix2;
\* transform_bluestein is entered at most once in a call, and the call ends.
C8_DepthOne == [](C8_Routed) /\ <>(stack = <<>>)

C8_Witness ==
  /\ Len(stack) = 6
  /\ stack[1].fn = "transform" /\ stack[1].n = 3
  /\ stack[2].fn = "transform_bluestein" /\ stack[3].fn = "convolve_complex" /\ stack[3].n = 8
  /\ stack[4].fn = "inverse_transform" /\ stack[6].fn = "transform_radix2" /\ stack[6].pc = "alloc"

====
